---- MODULE Spec2Model ----
(***************************************************************************)
(* State-machine model of paypal_package: the inbound webhook handler      *)
(* (webhooks.py), the OAuth token cache of PayPalClient (client.py) and    *)
(* the credential store (credentials.py, admin.py).                        *)
(*                                                                         *)
(* Strings that the code parses (custom_id) are sequences of characters;   *)
(* identifiers that are only compared are TLA+ strings.  A null foreign    *)
(* key and a missing JSON key are NoId / the empty sequence / "".          *)
(***************************************************************************)
EXTENDS Integers, Sequences, FiniteSets, TLC

VARIABLES
    webhookEvents,  \* WebhookEvent table: event_id -> row
    payments,       \* order.models.Payment rows, by primary key
    orders,         \* order.models.Order rows, by id
    orderGroups,    \* order.models.OrderGroup rows, by id
    resp,           \* the HTTP response of the last webhook request
    delivered,      \* history: event ids some request has carried so far
    last,           \* history: what the last webhook request was and did
    handled,        \* history: event_id -> how its handler ended
    nDeliveries,    \* history: number of webhook requests so far
    configs,        \* PayPalConfig table: name -> row
    credLast,       \* history: the last credential-store operation
    access_token,   \* PayPalClient.access_token
    token_expires_at, \* PayPalClient.token_expires_at
    now,            \* the wall clock read by time.time()
    exchanges,      \* history: number of OAuth token POSTs sent so far
    nTicks,         \* history: number of clock advances so far
    tokLast,        \* history: the last _get_access_token call
    reqLast,        \* history: the last client call, if it was a _make_request
    capResp,        \* the HTTP response of the last capture_payment request
    capLast,        \* history: what the last capture_payment request was and did
    evLast,         \* history: the last API/admin operation on WebhookEvent rows
    inflight,       \* concurrent webhook requests: where each one stands
    runs,           \* history: event_id -> times _process_event ran for it
    endpoints,      \* WebhookEndpoint table: webhook_id -> row
    gateway,        \* the webhooks the gateway holds: id -> event types
    issued,         \* the number of webhook ids the gateway has issued
    epLast          \* history: the last WebhookManager operation

whVars == <<webhookEvents, payments, orders, orderGroups, resp, delivered, last,
           handled, nDeliveries>>
credVars == <<configs, credLast>>
tokVars == <<access_token, token_expires_at, now, exchanges, nTicks, tokLast,
            reqLast>>
capVars == <<capResp, capLast>>
audVars == <<evLast>>
raceVars == <<inflight, runs>>
epVars == <<endpoints, gateway, issued, epLast>>
vars == <<webhookEvents, payments, orders, orderGroups, resp, delivered, last,
          handled, nDeliveries, configs, credLast, access_token, token_expires_at, now,
          exchanges, nTicks, tokLast, reqLast, capResp, capLast, evLast, inflight,
          runs, endpoints, gateway, issued, epLast>>

\* The number of webhook requests a behaviour may contain.
MaxDeliveries == 3

\* The number of token exchanges and of clock advances a behaviour may contain.
MaxExchanges == 3
MaxTicks == 2
\* The number of webhooks the gateway may be asked to register.
MaxWebhooks == 2

\* A null foreign key, and the result of first() on an empty queryset.
NoId == 0

(***************************************************************************)
(* Python values                                                           *)
(***************************************************************************)
Digits == {"0", "1", "2", "3", "4", "5", "6", "7", "8", "9"}

DigitVal(c) ==
    CASE c = "0" -> 0 [] c = "1" -> 1 [] c = "2" -> 2 [] c = "3" -> 3
      [] c = "4" -> 4 [] c = "5" -> 5 [] c = "6" -> 6 [] c = "7" -> 7
      [] c = "8" -> 8 [] c = "9" -> 9

\* Whether int(s) succeeds for the string s (a sign, then decimal digits).
IsIntLiteral(s) ==
    LET body == IF Len(s) > 0 /\ s[1] \in {"+", "-"} THEN Tail(s) ELSE s
    IN  /\ Len(body) > 0
        /\ \A i \in 1..Len(body) : body[i] \in Digits

RECURSIVE DigitsValue(_)
DigitsValue(s) ==
    IF Len(s) = 0 THEN 0
    ELSE 10 * DigitsValue(SubSeq(s, 1, Len(s) - 1)) + DigitVal(s[Len(s)])

\* int(s), for a string s with IsIntLiteral(s).
IntOf(s) ==
    IF s[1] = "-" THEN 0 - DigitsValue(Tail(s))
    ELSE IF s[1] = "+" THEN DigitsValue(Tail(s))
    ELSE DigitsValue(s)

\* `a or b` on strings: the first operand unless it is empty or missing.
OrElse(a, b) == IF a # <<>> THEN a ELSE b
OrElseId(a, b) == IF a # "" THEN a ELSE b

\* The lower-case form the database compares under __iexact.
Lower(s) ==
    CASE s = "CAP1" -> "cap1" [] s = "CAP3" -> "cap3" [] s = "CAP4" -> "cap4"
      [] s = "CAP5" -> "cap5" [] s = "CAP6" -> "cap6" [] s = "CAP7" -> "cap7"
      [] s = "CAP8" -> "cap8" [] s = "CAP9" -> "cap9" [] s = "PAY42" -> "pay42"
      [] OTHER -> s

\* Whether float(s) succeeds, and its value in hundredths.
IsFloatLiteral(s) == s \in {"19.99", "5.00"}

FloatOf(s) == CASE s = "19.99" -> 1999 [] s = "5.00" -> 500

(***************************************************************************)
(* Webhook payloads.  An event id names one gateway event, so every        *)
(* delivery of an id carries the same body.                                *)
(***************************************************************************)
EventIds == {"EVT1", "EVT2", "EVT3", "EVT4", "EVT5", "EVT6", "EVT7", "EVT8"}

\* A request body that json.loads rejects.
NotJson == "NOT_JSON"

Bodies == EventIds \cup {NotJson}

Resource(id, custom_id, purchase_units, value, total) ==
    [id |-> id, custom_id |-> custom_id, purchase_units |-> purchase_units,
     amount |-> [value |-> value, total |-> total]]

PurchaseUnit(custom_id) == [custom_id |-> custom_id]

Payload(eid) ==
    CASE eid = "EVT1" ->
           [event_type |-> "PAYMENT.CAPTURE.COMPLETED", resource_id |-> "",
            resource |-> Resource("CAP1", <<"G", "-", "4", "2">>, <<>>, "19.99", "")]
      [] eid = "EVT2" ->
           [event_type |-> "PAYMENT.CAPTURE.COMPLETED", resource_id |-> "",
            resource |-> Resource("cap7", <<>>, <<>>, "", "5.00")]
      [] eid = "EVT3" ->
           [event_type |-> "PAYMENT.CAPTURE.PENDING", resource_id |-> "",
            resource |-> Resource("CAP3", <<"O", "G", "-", "7">>, <<>>, "5.00", "")]
      [] eid = "EVT4" ->
           [event_type |-> "PAYMENT.CAPTURE.COMPLETED", resource_id |-> "",
            resource |-> Resource("CAP4", <<>>,
                                  <<PurchaseUnit(<<"X", "Y", "Z">>)>>, "19.99", "")]
      [] eid = "EVT5" ->
           [event_type |-> "PAYMENT.CAPTURE.COMPLETED", resource_id |-> "",
            resource |-> Resource("CAP5", <<>>,
                                  <<PurchaseUnit(<<"4", "2">>)>>, "abc", "")]
      [] eid = "EVT6" ->
           [event_type |-> "PAYMENT.CAPTURE.COMPLETED", resource_id |-> "",
            resource |-> Resource("CAP6", <<>>,
                                  <<PurchaseUnit(<<"9", "9">>)>>, "19.99", "")]
      [] eid = "EVT7" ->
           [event_type |-> "PAYMENT.CAPTURE.DENIED", resource_id |-> "",
            resource |-> Resource("CAP8", <<>>, <<>>, "", "")]
      [] eid = "EVT8" ->
           [event_type |-> "PAYMENT.CAPTURE.COMPLETED", resource_id |-> "",
            resource |-> Resource("CAP9", <<>>,
                                  <<PurchaseUnit(<<"4", "2">>),
                                    PurchaseUnit(<<"7", "1">>)>>, "19.99", "")]

(***************************************************************************)
(* order.models rows                                                       *)
(***************************************************************************)
PAYMENT_COMPLETE == "Complete"
PAYMENT_PENDING == "Pending"
PENDING == "pending"
PROCESSING == "processing"
COMPLETED == "completed"

PaymentIds == {1, 2}
OrderIds == {42, 71}
OrderGroupIds == {7}

\* Payment 1 pays the single order 42; payment 2 pays order group 7, whose
\* child is order 71.
InitPayments ==
    (1 :> [payment_id |-> "PAY42", status |-> PAYMENT_PENDING, paid_amount |-> 0,
           order |-> 42, order_group |-> NoId])
    @@ (2 :> [payment_id |-> "CAP7", status |-> PAYMENT_PENDING, paid_amount |-> 0,
              order |-> NoId, order_group |-> 7])

InitOrders ==
    (42 :> [order_status |-> PENDING, order_group |-> NoId])
    @@ (71 :> [order_status |-> PENDING, order_group |-> 7])

InitOrderGroups == (7 :> [order_status |-> PENDING])

Db(p, o, g) == [payments |-> p, orders |-> o, orderGroups |-> g]

\* QuerySet.first() over the matching rows, in primary-key order.
First(ids) == IF ids = {} THEN NoId ELSE CHOOSE i \in ids : \A j \in ids : i <= j

(***************************************************************************)
(* WebhookHandler                                                          *)
(*                                                                         *)
(* The places where the database can raise are the inputs `fail` of a      *)
(* request: "create" (WebhookEvent.objects.create), "payment_save",        *)
(* "order_save" (order.save or og.save), "mark" (mark_as_processed's       *)
(* save), or "none".                                                       *)
(***************************************************************************)
FailPoints == {"none", "create", "payment_save", "order_save", "mark"}

\* verify_webhook_signature's answer: the status it returns, or "raise".
SigOutcomes == {"SUCCESS", "FAILURE", "raise"}

\* The loop over purchase_units: order_id = pu_item.get('custom_id') or order_id.
RECURSIVE ScanPurchaseUnits(_, _)
ScanPurchaseUnits(units, order_id) ==
    IF units = <<>> THEN order_id
    ELSE ScanPurchaseUnits(Tail(units), OrElse(Head(units).custom_id, order_id))

\* Payment.objects.filter(payment_id__iexact=capture_id).first()
PaymentByCaptureId(db, capture_id) ==
    First({p \in DOMAIN db.payments :
             Lower(db.payments[p].payment_id) = Lower(capture_id)})

\* Payment.objects.filter(order=order).first()
PaymentByOrder(db, order) ==
    First({p \in DOMAIN db.payments : db.payments[p].order = order})

\* The Payment the handler resolves: a row's key, NoId, or "ValueError" when
\* Order.objects.filter(id=order_id) cannot convert order_id to a number.
ResolvePayment(db, resource, capture_id) ==
    LET byId == PaymentByCaptureId(db, capture_id)
        order_id == ScanPurchaseUnits(resource.purchase_units, <<>>)
    IN  IF byId # NoId THEN [raised |-> FALSE, payment |-> byId]
        ELSE IF order_id = <<>> THEN [raised |-> FALSE, payment |-> NoId]
        ELSE IF ~IsIntLiteral(order_id) THEN [raised |-> TRUE, payment |-> NoId]
        ELSE IF IntOf(order_id) \notin DOMAIN db.orders
             THEN [raised |-> FALSE, payment |-> NoId]
        ELSE [raised |-> FALSE, payment |-> PaymentByOrder(db, IntOf(order_id))]

\* The Payment row as the handler saves it.
CompletedPayment(row, resource, capture_id) ==
    LET paid == OrElseId(resource.amount.value, resource.amount.total)
    IN  [row EXCEPT !.status = PAYMENT_COMPLETE,
                    !.paid_amount = IF paid # "" /\ IsFloatLiteral(paid)
                                    THEN FloatOf(paid) ELSE @,
                    !.payment_id = capture_id]

\* _handle_payment_completed: the database it leaves and how it ended:
\* "applied", "no_payment" (the warning branch), or the except branch, entered
\* from the lookup ("lookup_raised") or from a save ("raised").
HandlePaymentCompleted(db, ev, fail) ==
    LET resource == ev.resource
        capture_id == OrElseId(resource.id, ev.resource_id)
        found == ResolvePayment(db, resource, capture_id)
        p == found.payment
        saved == [db EXCEPT !.payments[p] = CompletedPayment(@, resource, capture_id)]
    IN  IF found.raised THEN [db |-> db, outcome |-> "lookup_raised"]
        ELSE IF p = NoId THEN [db |-> db, outcome |-> "no_payment"]
        ELSE IF fail = "payment_save" THEN [db |-> db, outcome |-> "raised"]
        ELSE IF db.payments[p].order # NoId THEN
            IF fail = "order_save" THEN [db |-> saved, outcome |-> "raised"]
            ELSE [db |-> [saved EXCEPT !.orders[db.payments[p].order].order_status
                                          = PROCESSING],
                  outcome |-> "applied"]
        ELSE IF db.payments[p].order_group # NoId THEN
            IF fail = "order_save" THEN [db |-> saved, outcome |-> "raised"]
            ELSE [db |-> [saved EXCEPT
                            !.orderGroups[db.payments[p].order_group].order_status
                                = PROCESSING],
                  outcome |-> "applied"]
        ELSE [db |-> saved, outcome |-> "applied"]

\* _handle_payment_denied and _handle_order_completed only log.
HandlePaymentDenied(db, ev) == [db |-> db, outcome |-> "logged"]
HandleOrderCompleted(db, ev) == [db |-> db, outcome |-> "logged"]

\* WebhookEvent.mark_as_processed
MarkAsProcessedRewrites(row) ==
    [row EXCEPT !.processed = TRUE, !.processed_at = "set", !.event_type = ""]

MarkAsProcessed(row) == [row EXCEPT !.processed = TRUE, !.processed_at = "set"]

\* A faulty _process_event, without its try/except: an exception of
\* mark_as_processed reaches process_webhook.
ProcessEventPropagates(db, row, ev, fail) ==
    LET h == IF row.event_type = "PAYMENT.CAPTURE.COMPLETED"
                THEN HandlePaymentCompleted(db, ev, fail)
             ELSE [db |-> db, outcome |-> "unhandled"]
    IN  [db |-> h.db,
         row |-> IF fail = "mark" THEN row ELSE MarkAsProcessed(row),
         outcome |-> h.outcome,
         raised |-> fail = "mark"]

\* _process_event: dispatch on the event type, then mark the event processed.
\* No handler lets an exception out, so the marking is reached on every path;
\* its own save can raise, which the except branch swallows.
ProcessEvent(db, row, ev, fail) ==
    LET h == IF row.event_type = "PAYMENT.CAPTURE.COMPLETED"
                THEN HandlePaymentCompleted(db, ev, fail)
             ELSE IF row.event_type = "PAYMENT.CAPTURE.DENIED"
                THEN HandlePaymentDenied(db, ev)
             ELSE IF row.event_type = "CHECKOUT.ORDER.COMPLETED"
                THEN HandleOrderCompleted(db, ev)
             ELSE [db |-> db, outcome |-> "unhandled"]
    IN  [db |-> h.db,
         row |-> IF fail = "mark" THEN row ELSE MarkAsProcessed(row),
         outcome |-> h.outcome,
         raised |-> FALSE]

\* A faulty _verify_webhook_signature, which lets a delivery through when the
\* gateway call raises.
VerifyWebhookSignatureFailsOpen(sig) == IF sig = "raise" THEN TRUE ELSE sig = "SUCCESS"

\* _verify_webhook_signature: any exception of the gateway call gives False.
VerifyWebhookSignature(sig) == IF sig = "raise" THEN FALSE ELSE sig = "SUCCESS"

\* The row WebhookEvent.objects.create stores.
NewWebhookEvent(data) ==
    [event_type |-> data.event_type, resource_id |-> data.resource_id,
     processed |-> FALSE, processed_at |-> "None"]

JsonResponse(key, text, status) == [status |-> status, body |-> <<key, text>>]

\* A faulty first half of process_webhook, whose duplicate check looks for a
\* processed record instead of any record.
ReceiveWebhookChecksFlag(events, db, body, sig) ==
    IF body = NotJson THEN
        [events |-> events, db |-> db, path |-> "malformed", outcome |-> "none",
         verification |-> "",
         resp |-> JsonResponse("error", "Invalid JSON", 400)]
    ELSE IF body \in DOMAIN events /\ events[body].processed THEN
        [events |-> events, db |-> db, path |-> "duplicate", outcome |-> "none",
         verification |-> "",
         resp |-> JsonResponse("status", "already_processed", 200)]
    ELSE IF ~VerifyWebhookSignature(sig) THEN
        [events |-> events, db |-> db, path |-> "bad_signature", outcome |-> "none",
         verification |-> sig,
         resp |-> JsonResponse("error", "Invalid signature", 400)]
    ELSE
        [events |-> events, db |-> db, path |-> "proceed", outcome |-> "none",
         verification |-> sig,
         resp |-> JsonResponse("", "", 0)]

\* The first half of process_webhook (lines 105-123): parse the body, look
\* for a record of the event id, verify the signature.  The path is
\* "proceed" when the request goes on to store the event; `verification` is
\* what the gateway's verification call answered, "" when it was not made.
ReceiveWebhook(events, db, body, sig) ==
    IF body = NotJson THEN
        [events |-> events, db |-> db, path |-> "malformed", outcome |-> "none",
         verification |-> "",
         resp |-> JsonResponse("error", "Invalid JSON", 400)]
    ELSE IF body \in DOMAIN events THEN
        [events |-> events, db |-> db, path |-> "duplicate", outcome |-> "none",
         verification |-> "",
         resp |-> JsonResponse("status", "already_processed", 200)]
    ELSE IF ~VerifyWebhookSignature(sig) THEN
        [events |-> events, db |-> db, path |-> "bad_signature", outcome |-> "none",
         verification |-> sig,
         resp |-> JsonResponse("error", "Invalid signature", 400)]
    ELSE
        [events |-> events, db |-> db, path |-> "proceed", outcome |-> "none",
         verification |-> sig,
         resp |-> JsonResponse("", "", 0)]

\* The second half of process_webhook (lines 126-146): create the record,
\* which raises when the fail point says so or when a record of the event id
\* exists by now (event_id is unique), then process the event.
StoreAndProcess(events, db, body, sig, fail) ==
    IF fail = "create" \/ body \in DOMAIN events THEN
        [events |-> events, db |-> db, path |-> "store_failed", outcome |-> "none",
         verification |-> sig,
         resp |-> JsonResponse("error", "Internal server error", 500)]
    ELSE
        LET data == Payload(body)
            r == ProcessEvent(db, NewWebhookEvent(data), data, fail)
        IN  [events |-> (body :> r.row) @@ events, db |-> r.db,
             path |-> "stored", outcome |-> r.outcome,
             verification |-> sig,
             resp |-> IF r.raised
                      THEN JsonResponse("error", "Internal server error", 500)
                      ELSE JsonResponse("status", "success", 200)]

\* process_webhook: the tables and the response it leaves, with the path taken.
ProcessWebhook(events, db, body, sig, fail) ==
    LET r == ReceiveWebhook(events, db, body, sig)
    IN  IF r.path # "proceed" THEN r
        ELSE StoreAndProcess(events, db, body, sig, fail)

\* process_webhook_drf repeats process_webhook with a DRF Response.
ProcessWebhookDrf(events, db, body, sig, fail) ==
    ProcessWebhook(events, db, body, sig, fail)

\* One webhook request, with r the result of the view that served it.
Serve(body, r) ==
    /\ webhookEvents' = r.events
    /\ payments' = r.db.payments
    /\ orders' = r.db.orders
    /\ orderGroups' = r.db.orderGroups
    /\ resp' = r.resp
    /\ delivered' = IF body = NotJson THEN delivered ELSE delivered \cup {body}
    /\ last' = [body |-> body, path |-> r.path, outcome |-> r.outcome,
                redelivery |-> body \in delivered,
                mutated |-> r.db # Db(payments, orders, orderGroups),
                recorded |-> r.events # webhookEvents,
                verification |-> r.verification,
                found |-> IF body \notin DOMAIN webhookEvents THEN "absent"
                          ELSE IF webhookEvents[body].processed THEN "processed"
                          ELSE "unprocessed"]
    /\ handled' = IF r.path = "stored" THEN (body :> r.outcome) @@ handled ELSE handled
    /\ nDeliveries' = nDeliveries + 1
    /\ UNCHANGED <<credVars, tokVars, capVars, audVars, raceVars, epVars>>

paypal_webhook_view(body, sig, fail) ==
    /\ nDeliveries < MaxDeliveries
    /\ Serve(body, ProcessWebhook(webhookEvents, Db(payments, orders, orderGroups),
                                  body, sig, fail))

paypal_webhook_drf_view(body, sig, fail) ==
    /\ nDeliveries < MaxDeliveries
    /\ Serve(body, ProcessWebhookDrf(webhookEvents, Db(payments, orders, orderGroups),
                                     body, sig, fail))

(***************************************************************************)
(* Concurrent webhook requests.  process_webhook runs in autocommit, with  *)
(* no lock and no transaction, so another request can run between its      *)
(* exists() check (with the signature verification) and its create.  Each   *)
(* request of Requests takes the two halves of process_webhook as two       *)
(* steps.                                                                   *)
(***************************************************************************)
\* Lines 105-123 of request r: it is answered at once (malformed, duplicate,
\* bad signature) or has passed the checks and goes on.
process_webhook_receive(r, body, sig) ==
    LET x == ReceiveWebhook(webhookEvents, Db(payments, orders, orderGroups), body, sig)
    IN  /\ inflight[r].pc = "idle"
        /\ inflight' = [inflight EXCEPT ![r] =
                IF x.path = "proceed"
                THEN [pc |-> "checked", body |-> body, status |-> 0]
                ELSE [pc |-> "answered", body |-> body, status |-> x.resp.status]]
        /\ UNCHANGED <<runs, whVars, credVars, tokVars, capVars, audVars, epVars>>

\* Lines 126-146 of request r: the create, which raises IntegrityError when
\* another request has stored the event id meanwhile, _process_event and the
\* answer.
process_webhook_store(r, fail) ==
    LET body == inflight[r].body
        x == StoreAndProcess(webhookEvents, Db(payments, orders, orderGroups),
                             body, "SUCCESS", fail)
    IN  /\ inflight[r].pc = "checked"
        /\ webhookEvents' = x.events
        /\ payments' = x.db.payments
        /\ orders' = x.db.orders
        /\ orderGroups' = x.db.orderGroups
        /\ inflight' = [inflight EXCEPT ![r] =
                [pc |-> "stored", body |-> body, status |-> x.resp.status]]
        /\ runs' = IF x.path = "stored"
                   THEN (body :> (IF body \in DOMAIN runs THEN runs[body] ELSE 0) + 1)
                        @@ runs
                   ELSE runs
        /\ UNCHANGED <<resp, delivered, last, handled, nDeliveries,
                       credVars, tokVars, capVars, audVars, epVars>>

(***************************************************************************)
(* Operations on stored WebhookEvent rows: the API action mark_processed   *)
(* (views.py) and the admin actions mark_as_processed and                  *)
(* mark_as_unprocessed (admin.py).  WebhookEventViewSet is read-only        *)
(* otherwise, and the admin offers no add; rows are never deleted here.    *)
(***************************************************************************)
\* A faulty admin reset, which clears the flag and keeps the timestamp.
MarkAsUnprocessedKeepsTime(row) == [row EXCEPT !.processed = FALSE]

\* queryset.update(processed=False, processed_at=None), on one row.
MarkAsUnprocessed(row) == [row EXCEPT !.processed = FALSE, !.processed_at = "None"]

\* WebhookEventAdmin.mark_as_processed: event.mark_as_processed() on each
\* selected row.
MarkSelectedProcessed(events, selected) ==
    [e \in DOMAIN events |->
        IF e \in selected THEN MarkAsProcessed(events[e]) ELSE events[e]]

\* WebhookEventAdmin.mark_as_unprocessed on the selected rows.
MarkSelectedUnprocessed(events, selected) ==
    [e \in DOMAIN events |->
        IF e \in selected THEN MarkAsUnprocessed(events[e]) ELSE events[e]]

\* WebhookEventViewSet.mark_processed: get_object() finds the row (404 when
\* there is none) and marks it.
mark_processed(e) ==
    /\ e \in DOMAIN webhookEvents
    /\ webhookEvents' = MarkSelectedProcessed(webhookEvents, {e})
    /\ evLast' = [op |-> "mark_processed", selected |-> {e}]
    /\ UNCHANGED <<payments, orders, orderGroups, resp, delivered, last, handled,
                   nDeliveries, credVars, tokVars, capVars, raceVars, epVars>>

mark_as_processed(selected) ==
    /\ selected # {}
    /\ webhookEvents' = MarkSelectedProcessed(webhookEvents, selected)
    /\ evLast' = [op |-> "mark_as_processed", selected |-> selected]
    /\ UNCHANGED <<payments, orders, orderGroups, resp, delivered, last, handled,
                   nDeliveries, credVars, tokVars, capVars, raceVars, epVars>>

mark_as_unprocessed(selected) ==
    /\ selected # {}
    /\ webhookEvents' = MarkSelectedUnprocessed(webhookEvents, selected)
    /\ evLast' = [op |-> "mark_as_unprocessed", selected |-> selected]
    /\ UNCHANGED <<payments, orders, orderGroups, resp, delivered, last, handled,
                   nDeliveries, credVars, tokVars, capVars, raceVars, epVars>>

(***************************************************************************)
(* PayPalPaymentViewSet.capture_payment (views.py): the merchant-side      *)
(* capture endpoint.  It asks the gateway to capture the PayPal order      *)
(* `order_id` and books the answer on the Payment and its Order/OrderGroup *)
(* inside transaction.atomic(); whatever is raised there is rolled back,   *)
(* printed and swallowed, and the gateway's answer is returned as 200.     *)
(***************************************************************************)
\* The status a capture can carry in the gateway's answer.
CaptureStatuses == {"COMPLETED", "PENDING", "REVIEW", "APPROVED", "DECLINED", "FAILED"}

\* captures[0] of the first purchase unit.
Capture(id, status, value, custom_id) ==
    [id |-> id, status |-> status, amount |-> [value |-> value],
     custom_id |-> custom_id]

\* The gateway's answer to the capture: the PayPal order id and the first
\* purchase unit, with its custom_id and its captures.
CaptureResponse(id, custom_id, captures) ==
    [id |-> id, purchase_units |-> <<[custom_id |-> custom_id,
                                     payments |-> [captures |-> captures]]>>]

\* The PayPal order ids of the URL: an opaque one, and one that reads as a
\* number.
PayPalOrderIds == {<<"5", "O", "1">>, <<"4", "2">>}

\* What client.capture_payment can come back with: a raised error, or an
\* answer whose first purchase unit names order 42 (on the unit or on the
\* capture), names nothing, or names something that is not a number, and
\* whose first capture has any of the statuses; or an answer without captures.
GatewayAnswers ==
    {[ok |-> FALSE]}
    \cup {[ok |-> TRUE,
           response |-> CaptureResponse("ORD1", c[1],
                                        <<Capture("CAPA", st, v, c[2])>>)] :
             c \in {<< <<"4", "2">>, <<>> >>, << <<>>, <<"4", "2">> >>,
                    << <<>>, <<>> >>, << <<"G", "-", "4", "2">>, <<>> >>},
             st \in CaptureStatuses, v \in {"19.99", ""}}
    \cup {[ok |-> TRUE, response |-> CaptureResponse("ORD1", <<"4", "2">>, <<>>)]}

\* Where a save inside the atomic block may raise.
CaptureFailPoints == {"none", "payment_save", "order_save"}

\* What the block extracts from the answer (lines 261-285).
CaptureFields(response) ==
    LET first == response.purchase_units[1]
        captures == first.payments.captures
        cap == captures[1]
    IN  IF captures = <<>> THEN
            [capture_id |-> response.id, capture_status |-> "",
             paid_amount |-> "", internal_order_id |-> first.custom_id]
        ELSE
            [capture_id |-> OrElseId(cap.id, response.id),
             capture_status |-> cap.status,
             paid_amount |-> cap.amount.value,
             internal_order_id |-> OrElse(cap.custom_id, first.custom_id)]

\* Payment.objects.filter(order__id=x).first(), x a string: ValueError when x
\* is not a number.
PaymentByOrderId(db, x) ==
    IF ~IsIntLiteral(x) THEN [raised |-> TRUE, payment |-> NoId]
    ELSE [raised |-> FALSE, payment |-> PaymentByOrder(db, IntOf(x))]

\* The Payment of lines 287-296: by the internal order id, else by the URL's
\* order id; an exception in either lookup leaves None.
FindPayment(db, internal_order_id, order_id) ==
    LET byInternal == IF internal_order_id = <<>>
                      THEN [raised |-> FALSE, payment |-> NoId]
                      ELSE PaymentByOrderId(db, internal_order_id)
        byUrl == PaymentByOrderId(db, order_id)
    IN  IF byInternal.raised THEN NoId
        ELSE IF byInternal.payment # NoId THEN byInternal.payment
        ELSE IF byUrl.raised THEN NoId
        ELSE byUrl.payment

\* The Payment status of lines 300-305.
CapturedStatus(old, capture_status) ==
    IF capture_status = "COMPLETED" THEN PAYMENT_COMPLETE
    ELSE IF capture_status \in {"PENDING", "DECLINED"} THEN PAYMENT_PENDING
    ELSE old

\* The Order/OrderGroup status of lines 320-324 and 330-334.
CapturedOwnerStatus(capture_status) ==
    IF capture_status = "COMPLETED" THEN COMPLETED ELSE PROCESSING

\* The Payment row as the block saves it.
CapturedPayment(row, f) ==
    [row EXCEPT !.status = CapturedStatus(@, f.capture_status),
                !.paid_amount = IF f.paid_amount # "" /\ IsFloatLiteral(f.paid_amount)
                                THEN FloatOf(f.paid_amount) ELSE @,
                !.payment_id = IF f.capture_id # "" THEN f.capture_id ELSE @]

\* A faulty atomic block, whose saves are committed one by one: a failure of
\* the Order/OrderGroup save leaves the saved Payment behind.
BookCaptureAutocommit(db, order_id, response, fail) ==
    LET f == CaptureFields(response)
        p == FindPayment(db, f.internal_order_id, order_id)
        row == db.payments[p]
        saved == [db EXCEPT !.payments[p] = CapturedPayment(row, f)]
        owner == CapturedOwnerStatus(f.capture_status)
    IN  IF p = NoId THEN [db |-> db, outcome |-> "no_payment", payment |-> NoId, raised |-> FALSE]
        ELSE IF fail = "payment_save" THEN
            [db |-> db, outcome |-> "rolled_back", payment |-> p, raised |-> TRUE]
        ELSE IF row.order_group # NoId THEN
            IF fail = "order_save"
            THEN [db |-> saved, outcome |-> "rolled_back", payment |-> p, raised |-> TRUE]
            ELSE [db |-> [saved EXCEPT !.orderGroups[row.order_group].order_status = owner],
                  outcome |-> "applied", payment |-> p, raised |-> FALSE]
        ELSE IF row.order # NoId THEN
            IF fail = "order_save"
            THEN [db |-> saved, outcome |-> "rolled_back", payment |-> p, raised |-> TRUE]
            ELSE [db |-> [saved EXCEPT !.orders[row.order].order_status = owner],
                  outcome |-> "applied", payment |-> p, raised |-> FALSE]
        ELSE [db |-> saved, outcome |-> "applied", payment |-> p, raised |-> FALSE]

\* The atomic block: the database it leaves and how it ended: "applied",
\* "no_payment", or "rolled_back" when a save raised.
BookCapture(db, order_id, response, fail) ==
    LET f == CaptureFields(response)
        p == FindPayment(db, f.internal_order_id, order_id)
        row == db.payments[p]
        saved == [db EXCEPT !.payments[p] = CapturedPayment(row, f)]
        owner == CapturedOwnerStatus(f.capture_status)
    IN  IF p = NoId THEN [db |-> db, outcome |-> "no_payment", payment |-> NoId, raised |-> FALSE]
        ELSE IF fail = "payment_save" THEN
            [db |-> db, outcome |-> "rolled_back", payment |-> p, raised |-> TRUE]
        ELSE IF row.order_group # NoId THEN
            IF fail = "order_save"
            THEN [db |-> db, outcome |-> "rolled_back", payment |-> p, raised |-> TRUE]
            ELSE [db |-> [saved EXCEPT !.orderGroups[row.order_group].order_status = owner],
                  outcome |-> "applied", payment |-> p, raised |-> FALSE]
        ELSE IF row.order # NoId THEN
            IF fail = "order_save"
            THEN [db |-> db, outcome |-> "rolled_back", payment |-> p, raised |-> TRUE]
            ELSE [db |-> [saved EXCEPT !.orders[row.order].order_status = owner],
                  outcome |-> "applied", payment |-> p, raised |-> FALSE]
        ELSE [db |-> saved, outcome |-> "applied", payment |-> p, raised |-> FALSE]

\* capture_payment: 400 when the gateway call raises, else 200 with the
\* gateway's answer, whatever the block did.
CapturePayment(db, order_id, answer, fail) ==
    IF ~answer.ok THEN
        [db |-> db, status |-> 400, body |-> "error", outcome |-> "gateway_failed",
         payment |-> NoId, raised |-> FALSE, capture_status |-> ""]
    ELSE
        LET b == BookCapture(db, order_id, answer.response, fail)
        IN  [db |-> b.db, status |-> 200, body |-> "response", outcome |-> b.outcome,
             payment |-> b.payment, raised |-> b.raised,
             capture_status |-> CaptureFields(answer.response).capture_status]

capture_payment(order_id, answer, fail) ==
    LET r == CapturePayment(Db(payments, orders, orderGroups), order_id, answer, fail)
    IN  /\ payments' = r.db.payments
        /\ orders' = r.db.orders
        /\ orderGroups' = r.db.orderGroups
        /\ capResp' = [status |-> r.status, body |-> r.body]
        /\ capLast' = [order_id |-> order_id, outcome |-> r.outcome,
                       payment |-> r.payment, raised |-> r.raised,
                       capture_status |-> r.capture_status,
                       before |-> Db(payments, orders, orderGroups)]
        /\ UNCHANGED <<webhookEvents, resp, delivered, last, handled, nDeliveries,
                       credVars, tokVars, audVars, raceVars, epVars>>

(***************************************************************************)
(* WebhookManager (webhooks.py): registration of webhooks at the gateway,  *)
(* and the local WebhookEndpoint table.  The gateway issues the ids        *)
(* 1, 2, ...; a gateway call either succeeds or raises without effect.     *)
(***************************************************************************)
\* The event-type lists a caller subscribes to.
EventLists == {<<"PAYMENT.CAPTURE.COMPLETED">>,
               <<"PAYMENT.CAPTURE.COMPLETED", "PAYMENT.CAPTURE.DENIED">>}

GatewayOutcomes == {"ok", "failed"}

\* create_webhook: the gateway registers the webhook, then the local row is
\* created with the id of the answer; either step may raise, and a failure
\* of the second leaves the gateway's webhook in place.
CreateWebhook(eps, gw, n, events, outcome, fail) ==
    IF outcome # "ok" THEN [endpoints |-> eps, gateway |-> gw, issued |-> n,
                            raised |-> TRUE]
    ELSE IF fail THEN [endpoints |-> eps, gateway |-> ((n + 1) :> events) @@ gw,
                       issued |-> n + 1, raised |-> TRUE]
    ELSE [endpoints |-> ((n + 1) :> [events |-> events, is_active |-> TRUE]) @@ eps,
          gateway |-> ((n + 1) :> events) @@ gw, issued |-> n + 1,
          raised |-> FALSE]

\* delete_webhook: the gateway deletes the webhook (an error when it holds
\* none with that id), then the local rows with that webhook_id are deleted.
DeleteWebhook(eps, gw, webhook_id, outcome) ==
    IF outcome # "ok" \/ webhook_id \notin DOMAIN gw
    THEN [endpoints |-> eps, gateway |-> gw, raised |-> TRUE]
    ELSE [endpoints |-> [i \in DOMAIN eps \ {webhook_id} |-> eps[i]],
          gateway |-> [i \in DOMAIN gw \ {webhook_id} |-> gw[i]],
          raised |-> FALSE]

\* update_webhook_events: the local row gets the new list; the gateway is
\* not called.  Returns False when there is no such row.
UpdateWebhookEvents(eps, gw, webhook_id, events) ==
    IF webhook_id \notin DOMAIN eps
    THEN [endpoints |-> eps, gateway |-> gw, returned |-> FALSE]
    ELSE [endpoints |-> [eps EXCEPT ![webhook_id].events = events],
          gateway |-> gw, returned |-> TRUE]

create_webhook(events, outcome, fail) ==
    LET r == CreateWebhook(endpoints, gateway, issued, events, outcome, fail)
    IN  /\ r.issued <= MaxWebhooks
        /\ endpoints' = r.endpoints
        /\ gateway' = r.gateway
        /\ issued' = r.issued
        /\ epLast' = [op |-> "create_webhook", raised |-> r.raised]
        /\ UNCHANGED <<whVars, credVars, tokVars, capVars, audVars, raceVars>>

delete_webhook(webhook_id, outcome) ==
    LET r == DeleteWebhook(endpoints, gateway, webhook_id, outcome)
    IN  /\ endpoints' = r.endpoints
        /\ gateway' = r.gateway
        /\ epLast' = [op |-> "delete_webhook", raised |-> r.raised]
        /\ UNCHANGED <<issued, whVars, credVars, tokVars, capVars, audVars, raceVars>>

update_webhook_events(webhook_id, events) ==
    LET r == UpdateWebhookEvents(endpoints, gateway, webhook_id, events)
    IN  /\ endpoints' = r.endpoints
        /\ gateway' = r.gateway
        /\ epLast' = [op |-> "update_webhook_events", raised |-> ~r.returned]
        /\ UNCHANGED <<issued, whVars, credVars, tokVars, capVars, audVars, raceVars>>

(***************************************************************************)
(* Credential store: CredentialManager and the PayPalConfig admin actions  *)
(***************************************************************************)
Names == {"A", "B"}
Modes == {"sandbox", "live"}

ActiveIn(cfgs, mode) ==
    {n \in DOMAIN cfgs : cfgs[n].mode = mode /\ cfgs[n].is_active}

\* store_credentials: update_or_create by name, with is_active = True.
StoreCredentials(cfgs, name, mode) ==
    (name :> [mode |-> mode, is_active |-> TRUE]) @@ cfgs

\* update_credentials: sets the mode when one is given ("" is none); raises
\* ValueError for an unknown name.
UpdateCredentials(cfgs, name, mode) ==
    IF name \in DOMAIN cfgs
    THEN [configs |-> [cfgs EXCEPT ![name].mode = IF mode # "" THEN mode ELSE @],
          raised |-> FALSE]
    ELSE [configs |-> cfgs, raised |-> TRUE]

\* delete_credentials
DeleteCredentials(cfgs, name) == [n \in DOMAIN cfgs \ {name} |-> cfgs[n]]

\* A faulty set_active_configuration, without the update(is_active=False).
SetActiveConfigurationKeepsOthers(cfgs, name) ==
    IF name \in DOMAIN cfgs
    THEN [configs |-> [cfgs EXCEPT ![name].is_active = TRUE], raised |-> FALSE]
    ELSE [configs |-> cfgs, raised |-> TRUE]

\* set_active_configuration: every row is deactivated (and committed) first,
\* then the named row is activated, or ValueError is raised if there is none.
SetActiveConfiguration(cfgs, name) ==
    LET off == [n \in DOMAIN cfgs |-> [cfgs[n] EXCEPT !.is_active = FALSE]]
    IN  IF name \in DOMAIN cfgs
        THEN [configs |-> [off EXCEPT ![name].is_active = TRUE], raised |-> FALSE]
        ELSE [configs |-> off, raised |-> TRUE]

\* PayPalConfigAdmin.activate_configuration / deactivate_configuration on the
\* selected rows.
ActivateConfiguration(cfgs, selected) ==
    [n \in DOMAIN cfgs |->
        IF n \in selected THEN [cfgs[n] EXCEPT !.is_active = TRUE] ELSE cfgs[n]]

DeactivateConfiguration(cfgs, selected) ==
    [n \in DOMAIN cfgs |->
        IF n \in selected THEN [cfgs[n] EXCEPT !.is_active = FALSE] ELSE cfgs[n]]

\* What the history records of an operation on `name`: the rows that were
\* active before it, in the named row's environment and in any.
CredRecord(op, name, raised) ==
    [op |-> op, name |-> name, raised |-> raised,
     activeBefore |-> IF name \in DOMAIN configs
                      THEN ActiveIn(configs, configs[name].mode) ELSE {},
     allActiveBefore |-> {n \in DOMAIN configs : configs[n].is_active}]

store_credentials(name, mode) ==
    /\ configs' = StoreCredentials(configs, name, mode)
    /\ credLast' = CredRecord("store_credentials", name, FALSE)
    /\ UNCHANGED <<whVars, tokVars, capVars, audVars, raceVars, epVars>>

update_credentials(name, mode) ==
    LET r == UpdateCredentials(configs, name, mode)
    IN  /\ configs' = r.configs
        /\ credLast' = CredRecord("update_credentials", name, r.raised)
        /\ UNCHANGED <<whVars, tokVars, capVars, audVars, raceVars, epVars>>

delete_credentials(name) ==
    /\ configs' = DeleteCredentials(configs, name)
    /\ credLast' = CredRecord("delete_credentials", name, FALSE)
    /\ UNCHANGED <<whVars, tokVars, capVars, audVars, raceVars, epVars>>

set_active_configuration(name) ==
    LET r == SetActiveConfiguration(configs, name)
    IN  /\ configs' = r.configs
        /\ credLast' = CredRecord("set_active_configuration", name, r.raised)
        /\ UNCHANGED <<whVars, tokVars, capVars, audVars, raceVars, epVars>>

activate_configuration(selected) ==
    /\ selected # {}
    /\ configs' = ActivateConfiguration(configs, selected)
    /\ credLast' = [op |-> "activate_configuration", name |-> "", raised |-> FALSE,
                    activeBefore |-> {}, allActiveBefore |-> {}]
    /\ UNCHANGED <<whVars, tokVars, capVars, audVars, raceVars, epVars>>

deactivate_configuration(selected) ==
    /\ selected # {}
    /\ configs' = DeactivateConfiguration(configs, selected)
    /\ credLast' = [op |-> "deactivate_configuration", name |-> "", raised |-> FALSE,
                    activeBefore |-> {}, allActiveBefore |-> {}]
    /\ UNCHANGED <<whVars, tokVars, capVars, audVars, raceVars, epVars>>

(***************************************************************************)
(* PayPalClient token cache.  access_token = "" and token_expires_at = 0   *)
(* stand for None: `if self.access_token and self.token_expires_at` reads  *)
(* both only for their truth value.                                        *)
(***************************************************************************)
\* time.time() when the client is constructed, and the steps the clock takes.
StartTime == 1000
Deltas == {30, 3600}

\* The 60 s buffer and the default lifetime of line 76.
SafetyMargin == 60
DefaultExpiresIn == 3600

\* The access_token of a successful answer is a non-empty string.
Tokens == {"T1", "T2"}

\* What the token endpoint can answer: a failure (transport error or non-2xx
\* status, both a RequestException), or a token with or without expires_in.
TokenResponses ==
    {[ok |-> FALSE, access_token |-> "", has_expires_in |-> FALSE, expires_in |-> 0]}
    \cup [ok : {TRUE}, access_token : Tokens, has_expires_in : {TRUE},
          expires_in : {30, 90}]
    \cup [ok : {TRUE}, access_token : Tokens, has_expires_in : {FALSE},
          expires_in : {0}]

\* token_data.get('expires_in', 3600)
ExpiresIn(response) ==
    IF response.has_expires_in THEN response.expires_in ELSE DefaultExpiresIn

\* get_credentials: raises ImproperlyConfigured unless some config is active.
HasActiveConfig(cfgs) == \E n \in DOMAIN cfgs : cfgs[n].is_active

\* A faulty cache test, which still trusts the token at its expiry.
CacheValidAtExpiry(token, expires_at, t) ==
    token # "" /\ expires_at # 0 /\ t <= expires_at

\* The cached token is returned: both fields are truthy and now < expiry.
CacheValid(token, expires_at, t) == token # "" /\ expires_at # 0 /\ t < expires_at

\* A faulty _get_access_token, which forgets the token on a failed exchange.
GetAccessTokenClearsOnFailure(token, expires_at, cfgs, t, response) ==
    IF CacheValid(token, expires_at, t) THEN
        [access_token |-> token, token_expires_at |-> expires_at, posts |-> 0,
         raised |-> "none", returned |-> token]
    ELSE IF ~HasActiveConfig(cfgs) THEN
        [access_token |-> token, token_expires_at |-> expires_at, posts |-> 0,
         raised |-> "ImproperlyConfigured", returned |-> ""]
    ELSE IF ~response.ok THEN
        [access_token |-> "", token_expires_at |-> 0, posts |-> 1,
         raised |-> "RequestException", returned |-> ""]
    ELSE
        [access_token |-> response.access_token,
         token_expires_at |-> t + ExpiresIn(response) - SafetyMargin, posts |-> 1,
         raised |-> "none", returned |-> response.access_token]

\* A faulty _get_access_token, which caches the token for its whole lifetime.
GetAccessTokenNoMargin(token, expires_at, cfgs, t, response) ==
    IF CacheValid(token, expires_at, t) THEN
        [access_token |-> token, token_expires_at |-> expires_at, posts |-> 0,
         raised |-> "none", returned |-> token]
    ELSE IF ~HasActiveConfig(cfgs) THEN
        [access_token |-> token, token_expires_at |-> expires_at, posts |-> 0,
         raised |-> "ImproperlyConfigured", returned |-> ""]
    ELSE IF ~response.ok THEN
        [access_token |-> token, token_expires_at |-> expires_at, posts |-> 1,
         raised |-> "RequestException", returned |-> ""]
    ELSE
        [access_token |-> response.access_token,
         token_expires_at |-> t + ExpiresIn(response), posts |-> 1,
         raised |-> "none", returned |-> response.access_token]

\* _get_access_token at time t, with `response` the token endpoint's answer
\* should it be asked: the cache it leaves, the POSTs it sent, what it raised
\* and what it returned.
GetAccessToken(token, expires_at, cfgs, t, response) ==
    IF CacheValid(token, expires_at, t) THEN
        [access_token |-> token, token_expires_at |-> expires_at, posts |-> 0,
         raised |-> "none", returned |-> token]
    ELSE IF ~HasActiveConfig(cfgs) THEN
        [access_token |-> token, token_expires_at |-> expires_at, posts |-> 0,
         raised |-> "ImproperlyConfigured", returned |-> ""]
    ELSE IF ~response.ok THEN
        [access_token |-> token, token_expires_at |-> expires_at, posts |-> 1,
         raised |-> "RequestException", returned |-> ""]
    ELSE
        [access_token |-> response.access_token,
         token_expires_at |-> t + ExpiresIn(response) - SafetyMargin, posts |-> 1,
         raised |-> "none", returned |-> response.access_token]

\* What a call of _get_access_token leaves in the history.
TokRecord(r, response) ==
    [op |-> "_get_access_token", at |-> now,
     token |-> access_token, expires_at |-> token_expires_at,
     configured |-> HasActiveConfig(configs),
     posts |-> r.posts, raised |-> r.raised, returned |-> r.returned,
     exchange |-> IF r.posts = 0 THEN "none"
                  ELSE IF response.ok THEN "ok" ELSE "failed",
     answer |-> IF r.posts = 0 THEN "" ELSE response.access_token,
     has_expires_in |-> r.posts # 0 /\ response.has_expires_in,
     expires_in |-> IF r.posts = 0 THEN 0 ELSE response.expires_in]

\* The history of a client call that was not a _make_request.
NoRequest == [op |-> "", configured |-> FALSE, cached |-> FALSE,
              exchange |-> "none", posts |-> 0, sent |-> 0,
              raised |-> "none", returned |-> "none", api |-> "none"]

_get_access_token(response) ==
    LET r == GetAccessToken(access_token, token_expires_at, configs, now, response)
    IN  /\ exchanges + r.posts <= MaxExchanges
        /\ access_token' = r.access_token
        /\ token_expires_at' = r.token_expires_at
        /\ exchanges' = exchanges + r.posts
        /\ tokLast' = TokRecord(r, response)
        /\ reqLast' = NoRequest
        /\ UNCHANGED <<now, nTicks, whVars, credVars, capVars, audVars, raceVars, epVars>>

\* What the API endpoint can answer to the one request of _make_request: a
\* failure (timeout, connection failure or non-2xx status, each a
\* RequestException), or a 2xx answer, whose parsed body (or {} when it has
\* none) is returned as "data".
ApiResponses == {[ok |-> FALSE], [ok |-> TRUE]}

\* A faulty _make_request, which builds the URL without reading the
\* credentials again once it holds a token.
MakeRequestTrustsToken(token, expires_at, cfgs, t, response, api) ==
    LET tk == GetAccessToken(token, expires_at, cfgs, t, response)
    IN  IF tk.raised # "none" THEN
            [tok |-> tk, sent |-> 0, raised |-> tk.raised, returned |-> "none"]
        ELSE IF ~api.ok THEN
            [tok |-> tk, sent |-> 1, raised |-> "RequestException",
             returned |-> "none"]
        ELSE
            [tok |-> tk, sent |-> 1, raised |-> "none",
             returned |-> "data"]

\* A faulty _make_request, which sends the request a second time when the
\* first did not succeed.
MakeRequestRetries(token, expires_at, cfgs, t, response, api) ==
    LET tk == GetAccessToken(token, expires_at, cfgs, t, response)
    IN  IF tk.raised # "none" THEN
            [tok |-> tk, sent |-> 0, raised |-> tk.raised, returned |-> "none"]
        ELSE IF ~HasActiveConfig(cfgs) THEN
            [tok |-> tk, sent |-> 0, raised |-> "ImproperlyConfigured",
             returned |-> "none"]
        ELSE IF ~api.ok THEN
            [tok |-> tk, sent |-> 2, raised |-> "RequestException",
             returned |-> "none"]
        ELSE
            [tok |-> tk, sent |-> 1, raised |-> "none",
             returned |-> "data"]

\* _make_request at time t: the token call it makes (tok), the API requests
\* it sent, what it raised and what it returned.  `response` is the token
\* endpoint's answer and `api` the API endpoint's, should they be asked.
MakeRequest(token, expires_at, cfgs, t, response, api) ==
    LET tk == GetAccessToken(token, expires_at, cfgs, t, response)
    IN  IF tk.raised # "none" THEN
            [tok |-> tk, sent |-> 0, raised |-> tk.raised, returned |-> "none"]
        ELSE IF ~HasActiveConfig(cfgs) THEN
            [tok |-> tk, sent |-> 0, raised |-> "ImproperlyConfigured",
             returned |-> "none"]
        ELSE IF ~api.ok THEN
            [tok |-> tk, sent |-> 1, raised |-> "RequestException",
             returned |-> "none"]
        ELSE
            [tok |-> tk, sent |-> 1, raised |-> "none",
             returned |-> "data"]

\* Every gateway operation of PayPalClient (create_order, get_order,
\* capture_payment, refund_payment, create_webhook, list_webhooks,
\* delete_webhook, verify_webhook_signature, ...) is one _make_request.
_make_request(response, api) ==
    LET r == MakeRequest(access_token, token_expires_at, configs, now, response, api)
    IN  /\ exchanges + r.tok.posts <= MaxExchanges
        /\ access_token' = r.tok.access_token
        /\ token_expires_at' = r.tok.token_expires_at
        /\ exchanges' = exchanges + r.tok.posts
        /\ tokLast' = TokRecord(r.tok, response)
        /\ reqLast' = [op |-> "_make_request",
                       configured |-> HasActiveConfig(configs),
                       cached |-> r.tok.posts = 0 /\ r.tok.raised = "none",
                       exchange |-> TokRecord(r.tok, response).exchange,
                       posts |-> r.tok.posts, sent |-> r.sent,
                       raised |-> r.raised, returned |-> r.returned,
                       api |-> IF r.sent = 0 THEN "none"
                               ELSE IF api.ok THEN "ok" ELSE "failed"]
        /\ UNCHANGED <<now, nTicks, whVars, credVars, capVars, audVars, raceVars, epVars>>

\* The clock moves on between calls.
Tick(d) ==
    /\ nTicks < MaxTicks
    /\ now' = now + d
    /\ nTicks' = nTicks + 1
    /\ UNCHANGED <<access_token, token_expires_at, exchanges, tokLast, reqLast,
                   whVars, credVars, capVars, audVars, raceVars, epVars>>

WebhookInit ==
    /\ webhookEvents = <<>>
    /\ payments = InitPayments
    /\ orders = InitOrders
    /\ orderGroups = InitOrderGroups
    /\ resp = [status |-> 0, body |-> <<"", "">>]
    /\ delivered = {}
    /\ last = [body |-> "", path |-> "", outcome |-> "none",
               redelivery |-> FALSE, mutated |-> FALSE, recorded |-> FALSE,
               verification |-> "", found |-> "absent"]
    /\ handled = <<>>
    /\ nDeliveries = 0

CredInit ==
    /\ configs = <<>>
    /\ credLast = [op |-> "", name |-> "", raised |-> FALSE, activeBefore |-> {},
                   allActiveBefore |-> {}]

TokenInit ==
    /\ access_token = ""
    /\ token_expires_at = 0
    /\ now = StartTime
    /\ exchanges = 0
    /\ nTicks = 0
    /\ tokLast = [op |-> "", at |-> 0, token |-> "", expires_at |-> 0,
                  configured |-> FALSE, posts |-> 0, raised |-> "none",
                  returned |-> "", exchange |-> "none", answer |-> "",
                  has_expires_in |-> FALSE, expires_in |-> 0]
    /\ reqLast = NoRequest

CaptureInit ==
    /\ capResp = [status |-> 0, body |-> ""]
    /\ capLast = [order_id |-> <<>>, outcome |-> "none", payment |-> NoId,
                  raised |-> FALSE,
                  capture_status |-> "", before |-> Db(InitPayments, InitOrders,
                                                      InitOrderGroups)]

\* The concurrent webhook requests of a race.
Requests == {1, 2}

AuditInit == evLast = [op |-> "", selected |-> {}]

RaceInit ==
    /\ inflight = [r \in Requests |-> [pc |-> "idle", body |-> "", status |-> 0]]
    /\ runs = <<>>

EndpointInit ==
    /\ endpoints = <<>>
    /\ gateway = <<>>
    /\ issued = 0
    /\ epLast = [op |-> "", raised |-> FALSE]

Init ==
    /\ WebhookInit /\ CredInit /\ TokenInit /\ CaptureInit
    /\ AuditInit /\ RaceInit /\ EndpointInit

WebhookNext ==
    \E body \in Bodies, sig \in SigOutcomes, fail \in FailPoints :
        \/ paypal_webhook_view(body, sig, fail)
        \/ paypal_webhook_drf_view(body, sig, fail)

SpecWebhook == Init /\ [][WebhookNext]_vars

CredNext ==
    \/ \E name \in Names, mode \in Modes : store_credentials(name, mode)
    \/ \E name \in Names, mode \in Modes \cup {""} : update_credentials(name, mode)
    \/ \E name \in Names : delete_credentials(name)
    \/ \E name \in Names : set_active_configuration(name)
    \/ \E selected \in SUBSET DOMAIN configs : activate_configuration(selected)
    \/ \E selected \in SUBSET DOMAIN configs : deactivate_configuration(selected)

SpecCred == Init /\ [][CredNext]_vars

\* The token cache, with the credential operations (on one config) that
\* decide whether get_credentials finds an active config.
TokenNext ==
    \/ \E response \in TokenResponses : _get_access_token(response)
    \/ \E response \in TokenResponses, api \in ApiResponses :
           _make_request(response, api)
    \/ \E d \in Deltas : Tick(d)
    \/ store_credentials("A", "sandbox")
    \/ deactivate_configuration({"A"} \cap DOMAIN configs)

SpecToken == Init /\ [][TokenNext]_vars

\* The capture endpoint, on the database the webhook handler also writes.
CaptureNext ==
    \E order_id \in PayPalOrderIds, answer \in GatewayAnswers,
       fail \in CaptureFailPoints : capture_payment(order_id, answer, fail)

SpecCapture == Init /\ [][CaptureNext]_vars

\* The deliveries of two events (one a handler applies, one of an unhandled
\* type) with the operations on the stored rows.
AuditBodies == {"EVT2", "EVT3"}

AuditNext ==
    \/ \E body \in AuditBodies, sig \in SigOutcomes, fail \in FailPoints :
           paypal_webhook_view(body, sig, fail)
    \/ \E e \in DOMAIN webhookEvents : mark_processed(e)
    \/ \E selected \in SUBSET DOMAIN webhookEvents : mark_as_processed(selected)
    \/ \E selected \in SUBSET DOMAIN webhookEvents : mark_as_unprocessed(selected)

SpecAudit == Init /\ [][AuditNext]_vars

\* Two webhook requests whose halves interleave; the create itself does not
\* fail for any other reason than the unique constraint.
RaceNext ==
    \/ \E r \in Requests, body \in Bodies, sig \in SigOutcomes :
           process_webhook_receive(r, body, sig)
    \/ \E r \in Requests, fail \in FailPoints \ {"create"} :
           process_webhook_store(r, fail)

SpecRace == Init /\ [][RaceNext]_vars

EndpointNext ==
    \/ \E events \in EventLists, outcome \in GatewayOutcomes, fail \in BOOLEAN :
           create_webhook(events, outcome, fail)
    \/ \E webhook_id \in 1..MaxWebhooks, outcome \in GatewayOutcomes :
           delete_webhook(webhook_id, outcome)
    \/ \E webhook_id \in 1..MaxWebhooks, events \in EventLists :
           update_webhook_events(webhook_id, events)

SpecEndpoint == Init /\ [][EndpointNext]_vars

Next == EndpointNext \/ RaceNext \/ AuditNext \/ WebhookNext \/ CredNext \/ TokenNext \/ CaptureNext

Spec == Init /\ [][Next]_vars

(***************************************************************************)
(* Claims about the webhook handler (checked under SpecWebhook)            *)
(***************************************************************************)
Is2xx(status) == status \in 200..299
Is4xx(status) == status \in 400..499

\* A request has been served, and it was the first to store its event.
Stored == last.body # "" /\ last.path = "stored"

\* C1: every delivery of an event id after the first one leaves all
\* Payment/Order/OrderGroup rows unchanged and is answered 200.
C1_RedeliveryIsNoOp ==
    last.redelivery => (~last.mutated /\ resp.status = 200)

\* C2: the webhook endpoint answers 2xx whatever the processing outcome; only a
\* body that is not JSON is answered 4xx.
C2_AlwaysAcknowledged ==
    last.body # "" =>
        IF last.body = NotJson THEN Is4xx(resp.status) ELSE Is2xx(resp.status)

\* C3: once the WebhookEvent record has been created, the response is the
\* success response, whether or not the handler failed.
C3_HandlerFailureStillAcknowledged ==
    Stored => resp = JsonResponse("status", "success", 200)

\* C3 witness: a handler failed after the record was created, and the answer
\* was 200.
C3_Witness ==
    /\ Stored
    /\ last.outcome = "raised"
    /\ last.body \in DOMAIN webhookEvents
    /\ resp.status = 200

\* What a WebhookEvent row says beyond the payload it copies.
AuditFields(row) == [processed |-> row.processed, processed_at |-> row.processed_at]

Unresolved == {"no_payment", "lookup_raised"}

\* C4: an event whose identifier resolves to no Payment mutates no row, is
\* answered 200, and leaves a record that tells it from an applied event.
C4_UnresolvedIsAudited ==
    /\ (Stored /\ last.outcome \in Unresolved) =>
            (~last.mutated /\ resp.status = 200)
    /\ \A u \in DOMAIN handled, a \in DOMAIN handled :
            (handled[u] \in Unresolved /\ handled[a] = "applied") =>
                AuditFields(webhookEvents[u]) # AuditFields(webhookEvents[a])

\* C9: the capture CAP1 with custom_id "G-42" on the resource and amount 19.99
\* completes the Payment of order 42 and is answered 200 {"status": "success"}.
C9_Scenario1 ==
    (Stored /\ last.body = "EVT1" /\ last.outcome # "raised") =>
        /\ payments[PaymentByOrder(Db(payments, orders, orderGroups), 42)]
              = [InitPayments[1] EXCEPT !.status = PAYMENT_COMPLETE,
                                        !.paid_amount = 1999,
                                        !.payment_id = "CAP1"]
        /\ resp = JsonResponse("status", "success", 200)

\* C10: a PAYMENT.CAPTURE.PENDING event with custom_id "OG-7" sets order group
\* 7 to pending and mutates no child order.
C10_Scenario3 ==
    (Stored /\ last.body = "EVT3") =>
        /\ orderGroups[7].order_status = PENDING
        /\ \A o \in DOMAIN orders :
              orders[o].order_group = 7 => orders[o] = InitOrders[o]

\* C11: every notification with a parseable body, accepted, rejected or
\* duplicate, has a WebhookEvent record in the store once it is answered.
C11_EveryNotificationRecorded ==
    (last.body # "" /\ last.body # NotJson) => last.body \in DOMAIN webhookEvents

\* C12: a body that is not JSON is answered 4xx, is recorded in the store, and
\* mutates no row and runs no handler.
C12_MalformedAudited ==
    last.body = NotJson =>
        /\ Is4xx(resp.status)
        /\ last.recorded
        /\ ~last.mutated
        /\ last.outcome = "none"

\* C13: a verified event of a type no handler takes is stored, mutates no row,
\* and its record is told from the record of an event a handler applied.
C13_UnhandledDistinguished ==
    /\ (Stored /\ last.outcome = "unhandled") =>
            (last.body \in DOMAIN webhookEvents /\ ~last.mutated)
    /\ \A u \in DOMAIN handled, a \in DOMAIN handled :
            (handled[u] = "unhandled" /\ handled[a] = "applied") =>
                AuditFields(webhookEvents[u]) # AuditFields(webhookEvents[a])

\* C17: a handler that fails part-way leaves none of its changes committed.
C17_HandlerAtomic ==
    (Stored /\ last.outcome = "raised") => ~last.mutated

\* C20: with purchase units carrying custom_id "42" then "71", the order is
\* resolved from the first: the Payment of order 42 is completed by CAP9.
C20_FirstPurchaseUnitWins ==
    (Stored /\ last.body = "EVT8" /\ last.outcome # "raised") =>
        LET p == PaymentByOrder(Db(payments, orders, orderGroups), 42)
        IN  /\ payments[p].status = PAYMENT_COMPLETE
            /\ payments[p].payment_id = "CAP9"

\* C24: a delivery whose verification call answers anything but SUCCESS, or
\* raises, stores no record, runs no handler and mutates no row; the event id
\* stays without a record, so a verified delivery of it is stored as a first
\* receipt.
C24_SignatureFailsClosed ==
    last.verification \in {"FAILURE", "raise"} =>
        /\ ~last.recorded
        /\ ~last.mutated
        /\ last.outcome = "none"
        /\ last.body \notin DOMAIN webhookEvents
        /\ ProcessWebhook(webhookEvents, Db(payments, orders, orderGroups),
                          last.body, "SUCCESS", "none").path = "stored"

\* C24 witness: the verification call raised on a delivery of an event id
\* that was delivered before; the id still has no record.
C24_Witness ==
    /\ last.verification = "raise"
    /\ last.redelivery
    /\ last.path = "bad_signature"
    /\ last.body \notin DOMAIN webhookEvents

\* C27: when the Payment/Order update inside _handle_payment_completed
\* raises, the event's processed flag stays false.
C27_ProcessedOnlyOnSuccess ==
    (Stored /\ last.outcome \in {"raised", "lookup_raised"}) =>
        ~webhookEvents[last.body].processed

(***************************************************************************)
(* Claims about the credential store (checked under SpecCred)              *)
(***************************************************************************)
\* The last operation was set_active_configuration on an existing config.
Activated ==
    /\ credLast.op = "set_active_configuration"
    /\ ~credLast.raised

\* C7: after set_active_configuration(B), B is active and every other config
\* of B's environment is inactive, and calling it again changes nothing.
C7_ActivationExclusiveIdempotent ==
    Activated =>
        LET B == credLast.name
        IN  /\ B \in DOMAIN configs
            /\ configs[B].is_active
            /\ ActiveIn(configs, configs[B].mode) = {B}
            /\ SetActiveConfiguration(configs, B).configs = configs

\* C7 witness: B was activated while another config A of its environment was
\* active; A is now inactive and B active.
C7_Witness ==
    /\ Activated
    /\ \E A \in credLast.activeBefore :
          /\ A # credLast.name
          /\ A \in DOMAIN configs
          /\ configs[A].mode = configs[credLast.name].mode
          /\ ~configs[A].is_active
    /\ configs[credLast.name].is_active

\* C8: at most one PayPalConfig per environment is active.
C8_AtMostOneActivePerMode ==
    \A mode \in Modes : Cardinality(ActiveIn(configs, mode)) <= 1

\* C23: set_active_configuration(name) leaves the is_active flag of every
\* config of another environment as it was.
C23_OtherEnvironmentUntouched ==
    Activated =>
        \A n \in DOMAIN configs :
            configs[n].mode # configs[credLast.name].mode =>
                (configs[n].is_active <=> n \in credLast.allActiveBefore)

\* C26: set_active_configuration with a name that matches no config raises
\* and leaves every is_active flag as it was.
C26_UnknownNameChangesNothing ==
    (credLast.op = "set_active_configuration" /\ credLast.name \notin DOMAIN configs) =>
        /\ credLast.raised
        /\ {n \in DOMAIN configs : configs[n].is_active} = credLast.allActiveBefore

(***************************************************************************)
(* Claims about the token cache (checked under SpecToken)                  *)
(***************************************************************************)
Called == tokLast.op = "_get_access_token"

\* The cache the last call found: empty, or holding a token that was still
\* good (now < expiry) or not (now >= expiry) at the time of the call.
FoundEmpty == tokLast.token = ""
FoundFresh == tokLast.token # "" /\ tokLast.at < tokLast.expires_at
FoundExpired == tokLast.token # "" /\ tokLast.at >= tokLast.expires_at

\* C5, as stated: a call on an empty cache performs exactly one exchange; a
\* call before expiry performs none and returns the cached token; a call at or
\* after expiry performs exactly one exchange and replaces the cached token.
C5_TokenCacheAsStated ==
    Called =>
        /\ FoundEmpty => tokLast.posts = 1
        /\ FoundFresh => (tokLast.posts = 0 /\ tokLast.returned = tokLast.token)
        /\ FoundExpired => (tokLast.posts = 1 /\ access_token = tokLast.answer)

\* C5, amended: the same, for a client that has an active config, with the
\* token replaced when the exchange succeeds; without an active config a call
\* that finds no fresh token raises ImproperlyConfigured and sends nothing.
C5_TokenCache ==
    Called =>
        /\ FoundFresh =>
              /\ tokLast.posts = 0
              /\ tokLast.raised = "none"
              /\ tokLast.returned = tokLast.token
              /\ access_token = tokLast.token
              /\ token_expires_at = tokLast.expires_at
        /\ (~FoundFresh /\ tokLast.configured) =>
              /\ tokLast.posts = 1
              /\ tokLast.raised = "none" =>
                    (access_token = tokLast.answer /\ tokLast.returned = tokLast.answer)
        /\ (~FoundFresh /\ ~tokLast.configured) =>
              (tokLast.posts = 0 /\ tokLast.raised = "ImproperlyConfigured")

\* C5 witness: a call found an expired token, made one exchange and replaced
\* the token by a different one.
C5_Witness ==
    /\ Called
    /\ FoundExpired
    /\ tokLast.posts = 1
    /\ tokLast.raised = "none"
    /\ access_token = tokLast.answer
    /\ access_token # tokLast.token

\* C6: a failed exchange raises, is not retried within the call, and leaves
\* access_token and token_expires_at as they were; the next call of a
\* configured client asks the token endpoint again.
C6_FailedExchangeLeavesCache ==
    (Called /\ tokLast.exchange = "failed") =>
        /\ tokLast.raised = "RequestException"
        /\ tokLast.posts = 1
        /\ tokLast.returned = ""
        /\ access_token = tokLast.token
        /\ token_expires_at = tokLast.expires_at
        /\ HasActiveConfig(configs) =>
              \A response \in TokenResponses :
                 GetAccessToken(access_token, token_expires_at, configs, now,
                                response).posts = 1

\* C6 witness: the exchange failed on an empty cache, after an earlier failed
\* exchange, and the cache is still empty.
C6_Witness ==
    /\ Called
    /\ tokLast.exchange = "failed"
    /\ tokLast.raised = "RequestException"
    /\ FoundEmpty
    /\ access_token = ""
    /\ token_expires_at = 0
    /\ exchanges >= 2

\* C14, as stated: without an active config the token fetch and every
\* _make_request call raise ImproperlyConfigured and send nothing, a valid
\* cached token notwithstanding.
C14_NoConfigAlwaysFatal ==
    /\ (Called /\ ~tokLast.configured) =>
           (tokLast.raised = "ImproperlyConfigured" /\ tokLast.posts = 0)
    /\ (reqLast.op = "_make_request" /\ ~reqLast.configured) =>
           /\ reqLast.raised = "ImproperlyConfigured"
           /\ reqLast.sent = 0
           /\ reqLast.posts = 0

\* C14, amended: without an active config every _make_request call raises
\* ImproperlyConfigured and sends neither an API request nor a token POST,
\* even with a valid cached token; the token fetch sends nothing either, and
\* raises ImproperlyConfigured unless it finds a valid cached token, which it
\* returns.
C14_NoConfigFatalToRequests ==
    /\ (Called /\ ~tokLast.configured) =>
           /\ tokLast.posts = 0
           /\ ~FoundFresh => tokLast.raised = "ImproperlyConfigured"
           /\ FoundFresh =>
                 (tokLast.raised = "none" /\ tokLast.returned = tokLast.token)
    /\ (reqLast.op = "_make_request" /\ ~reqLast.configured) =>
           /\ reqLast.raised = "ImproperlyConfigured"
           /\ reqLast.sent = 0
           /\ reqLast.posts = 0

\* C14 witness: _make_request was called with a valid cached token and no
\* active config; it raised ImproperlyConfigured and sent nothing.
C14_Witness ==
    /\ reqLast.op = "_make_request"
    /\ ~reqLast.configured
    /\ reqLast.cached
    /\ reqLast.raised = "ImproperlyConfigured"
    /\ reqLast.sent = 0

\* C15: one gateway operation sends at most one API request and at most one
\* token POST; when the token exchange or the API request does not succeed,
\* the operation raises and returns nothing.
C15_FailureRaisesNoRetry ==
    reqLast.op = "_make_request" =>
        /\ reqLast.sent <= 1
        /\ reqLast.posts <= 1
        /\ reqLast.api = "failed" =>
              (reqLast.raised = "RequestException" /\ reqLast.returned = "none")
        /\ reqLast.exchange = "failed" =>
              /\ reqLast.raised = "RequestException"
              /\ reqLast.returned = "none"
              /\ reqLast.sent = 0
        /\ reqLast.raised = "none" => reqLast.api = "ok"

\* C15 witness: an operation exchanged a token, sent its one API request, got
\* a failure and raised.
C15_Witness ==
    /\ reqLast.op = "_make_request"
    /\ reqLast.exchange = "ok"
    /\ reqLast.posts = 1
    /\ reqLast.sent = 1
    /\ reqLast.api = "failed"
    /\ reqLast.raised = "RequestException"

\* C16: a successful exchange at time now sets the expiry to
\* now + expires_in - 60, with expires_in 3600 when the answer has none, and
\* a call that returns the cached token is made before the cached expiry.
C16_ExpiryWithMargin ==
    Called =>
        /\ tokLast.exchange = "ok" =>
              token_expires_at =
                  tokLast.at
                  + (IF tokLast.has_expires_in THEN tokLast.expires_in ELSE 3600)
                  - 60
        /\ (tokLast.posts = 0 /\ tokLast.raised = "none") =>
              tokLast.at < tokLast.expires_at

\* C16 witness: an exchange answered expires_in <= 60, so the token it cached
\* was already expired and the next call did not return it but exchanged
\* again.
C16_Witness ==
    /\ Called
    /\ tokLast.exchange = "ok"
    /\ tokLast.has_expires_in /\ tokLast.expires_in <= 60
    /\ token_expires_at <= tokLast.at
    /\ tokLast.token # "" /\ tokLast.expires_at <= tokLast.at
    /\ exchanges >= 2

(***************************************************************************)
(* Claims about the capture endpoint (checked under SpecCapture)           *)
(***************************************************************************)
\* The capture endpoint resolved a Payment and committed its changes.
Booked == capLast.outcome = "applied"

\* C18: a booked capture leaves the Payment in the state the fixed table
\* gives for its status: COMPLETED -> Complete; PENDING, REVIEW, APPROVED ->
\* Pending; DECLINED, FAILED -> Failed, never Pending or Complete.
C18_StatusTable ==
    Booked =>
        LET st == payments[capLast.payment].status
        IN  /\ capLast.capture_status = "COMPLETED" => st = PAYMENT_COMPLETE
            /\ capLast.capture_status \in {"PENDING", "REVIEW", "APPROVED"} =>
                  st = PAYMENT_PENDING
            /\ capLast.capture_status \in {"DECLINED", "FAILED"} =>
                  (st = "Failed" /\ st \notin {PAYMENT_PENDING, PAYMENT_COMPLETE})

\* C19: a booked COMPLETED capture leaves the owning Order/OrderGroup
\* "processing"; a booked capture that leaves the Payment Pending leaves the
\* owner "pending", or as it was.
C19_OwnerFollowsPayment ==
    Booked =>
        LET row == payments[capLast.payment]
            owner == IF row.order_group # NoId
                     THEN orderGroups[row.order_group].order_status
                     ELSE orders[row.order].order_status
            was == IF row.order_group # NoId
                   THEN capLast.before.orderGroups[row.order_group].order_status
                   ELSE capLast.before.orders[row.order].order_status
        IN  /\ capLast.capture_status = "COMPLETED" => owner = PROCESSING
            /\ (capLast.capture_status # "COMPLETED" /\ row.status = PAYMENT_PENDING) =>
                  owner \in {PENDING, was}

\* C29: when a step of the local update raises, no Payment/Order/OrderGroup
\* change of the request persists and the answer is still the gateway's
\* capture response; when the gateway call itself fails, the answer is a 400
\* error and no row changes.
C29_CaptureAtomic ==
    /\ capLast.raised =>
          /\ Db(payments, orders, orderGroups) = capLast.before
          /\ capResp = [status |-> 200, body |-> "response"]
    /\ capLast.outcome = "gateway_failed" =>
          /\ Db(payments, orders, orderGroups) = capLast.before
          /\ capResp = [status |-> 400, body |-> "error"]

\* C29 witness: a COMPLETED capture resolved a Pending Payment, a save
\* raised, and the Payment is still Pending with the answer a 200.
C29_Witness ==
    /\ capLast.raised
    /\ capLast.payment # NoId
    /\ capLast.capture_status = "COMPLETED"
    /\ payments[capLast.payment].status = PAYMENT_PENDING
    /\ capResp.status = 200

(***************************************************************************)
(* Claims about stored WebhookEvent rows (checked under SpecAudit)         *)
(***************************************************************************)
\* What a row copies from the notification at creation.
Received(row) == [event_type |-> row.event_type, resource_id |-> row.resource_id]

C28_DuplicateKeysOnExistence ==
    (last.body # "" /\ last.found # "absent") =>
        /\ resp = JsonResponse("status", "already_processed", 200)
        /\ last.path = "duplicate"
        /\ last.outcome = "none"
        /\ ~last.mutated
        /\ ~last.recorded

\* C28 witness: a delivery found a record whose processed flag was false and
\* was answered 200 already_processed.
C28_Witness ==
    /\ last.found = "unprocessed"
    /\ last.path = "duplicate"
    /\ resp.status = 200

\* C30: every WebhookEvent row has processed true exactly when processed_at
\* is set.
C30_ProcessedIffProcessedAt ==
    \A e \in DOMAIN webhookEvents :
        webhookEvents[e].processed <=> webhookEvents[e].processed_at # "None"

\* C30 witness: the admin reset a selection of rows, and a row of it has the
\* flag false and no timestamp, while another row is processed with one.
C30_Witness ==
    /\ evLast.op = "mark_as_unprocessed"
    /\ \E e \in evLast.selected :
          ~webhookEvents[e].processed /\ webhookEvents[e].processed_at = "None"
    /\ \E e \in DOMAIN webhookEvents :
          webhookEvents[e].processed /\ webhookEvents[e].processed_at = "set"

(***************************************************************************)
(* Claims about concurrent deliveries (checked under SpecRace)             *)
(***************************************************************************)
\* C25: when two requests carrying the same event id both passed the
\* exists() check before either created its record, one record exists, the
\* handler ran at most once, and both are answered 2xx.
C25_ConcurrentDuplicates ==
    \A r1, r2 \in Requests :
        (/\ r1 # r2
         /\ inflight[r1].pc = "stored"
         /\ inflight[r2].pc = "stored"
         /\ inflight[r1].body = inflight[r2].body) =>
            /\ inflight[r1].body \in DOMAIN webhookEvents
            /\ inflight[r1].body \in DOMAIN runs => runs[inflight[r1].body] <= 1
            /\ Is2xx(inflight[r1].status)
            /\ Is2xx(inflight[r2].status)

(***************************************************************************)
(* Claims about the WebhookEndpoint table (checked under SpecEndpoint)     *)
(***************************************************************************)
\* C22: a local endpoint with a gateway id exists exactly when the gateway
\* holds that webhook, and its event list is the gateway's.
C22_EndpointsMirrorGateway ==
    /\ DOMAIN endpoints = DOMAIN gateway
    /\ \A id \in DOMAIN endpoints \cap DOMAIN gateway :
          endpoints[id].events = gateway[id]

====
